---------------------------- MODULE Spec2Model ----------------------------
(***************************************************************************)
(* A model of the MLB betting demo:                                        *)
(*   src/mlb_betting_model_HrishikeshK.py   the probability pipeline       *)
(*       (base estimate -> isotonic calibration -> market blend ->         *)
(*        EV / Kelly), a straight-line script over one data frame;         *)
(*   src/mlb_betting_model_v3_results.py    the recommendation table and   *)
(*       its tally.                                                        *)
(*                                                                         *)
(* Numbers.  The scripts compute in float64.  The model computes in exact  *)
(* rationals <<n, d>> (d > 0, lowest terms): every statement below is a    *)
(* statement about the real-number value of the source's expressions, not  *)
(* about their last-place rounding.                                        *)
(*                                                                         *)
(* Three specifications:                                                   *)
(*   Spec         the pipeline script, run from its generated data frame;  *)
(*   SpecCalls    the script's functions and expressions (american_to_prob,*)
(*                kelly_fraction, the ev expression, the blend expression, *)
(*                the calibrator) applied to inputs drawn from bounded     *)
(*                sets;                                                    *)
(*   SpecResults  the results script.                                      *)
(***************************************************************************)
EXTENDS Integers, Sequences, FiniteSets

VARIABLES
    pc,     \* the script's position (the next statement to run)
    df,     \* the data frame: column name -> column (a sequence, one entry per row)
    env,    \* the script's module-level scalars: name -> value
    call    \* SpecCalls: the last function application, [fn, args, ret]

vars == <<pc, df, env, call>>

---------------------------------------------------------------------------
(* Bounds of the model. *)

NGames == 2      \* rows of the pipeline's data frame (n_games is 250 in the source)
PDen == 2        \* the pipeline's raw probabilities are k / PDen, k in 0..PDen
CDen == 4        \* the calibrator and blend inputs of SpecCalls are k / CDen
KDen == 20       \* the staking inputs of SpecCalls are k / KDen
OddsSmall == 3   \* SpecCalls odds: every integer in -OddsSmall..OddsSmall ...
OddsTens == 15   \* ... and every multiple of ten in -10*OddsTens..10*OddsTens
NCal == 3        \* training rows of the calibrator in SpecCalls
NBets == 2       \* rows of the results script's table (10 in the source)

---------------------------------------------------------------------------
(* Exact rational arithmetic, standing for the source's float arithmetic. *)

Abs(n) == IF n < 0 THEN -n ELSE n

RECURSIVE GCD(_, _)
GCD(a, b) == IF b = 0 THEN a ELSE GCD(b, a % b)

\* n / d in lowest terms with a positive denominator (d # 0).
Rat(n, d) ==
    LET g == GCD(Abs(n), Abs(d))
        s == IF d < 0 THEN -1 ELSE 1
    IN  <<(s * n) \div g, (s * d) \div g>>

Num(q) == q[1]
Den(q) == q[2]
FromInt(n) == <<n, 1>>
Zero == FromInt(0)
One == FromInt(1)
Half == Rat(1, 2)

RAdd(a, b) == Rat(Num(a) * Den(b) + Num(b) * Den(a), Den(a) * Den(b))
RSub(a, b) == Rat(Num(a) * Den(b) - Num(b) * Den(a), Den(a) * Den(b))
RMul(a, b) == Rat(Num(a) * Num(b), Den(a) * Den(b))
RDiv(a, b) == Rat(Num(a) * Den(b), Den(a) * Num(b))
RLt(a, b) == Num(a) * Den(b) < Num(b) * Den(a)
RLe(a, b) == Num(a) * Den(b) <= Num(b) * Den(a)
RMax(a, b) == IF RLt(a, b) THEN b ELSE a
RMin(a, b) == IF RLt(b, a) THEN b ELSE a

\* The probabilities k / den, k in 0..den.
Grid(den) == {Rat(k, den) : k \in 0..den}

---------------------------------------------------------------------------
(* What a Python call produces: a value, or an exception that leaves no    *)
(* value.                                                                  *)

NoValue == <<>>
Return(v) == [raised |-> "none", value |-> v]
Raise(e) == [raised |-> e, value |-> NoValue]

\* Python's a / b: ZeroDivisionError on a zero divisor.
TrueDiv(a, b) == IF Num(b) = 0 THEN Raise("ZeroDivisionError") ELSE Return(RDiv(a, b))

---------------------------------------------------------------------------
(* src/mlb_betting_model_HrishikeshK.py: the functions and expressions. *)

\* Mutant of american_to_prob: the underdog branch inverted.
american_to_prob_inverted(odds) ==
    IF odds > 0
      THEN TrueDiv(FromInt(odds), FromInt(odds + 100))
      ELSE TrueDiv(FromInt(-odds), FromInt((-odds) + 100))

\* def american_to_prob(odds):
\*     return 100 / (odds + 100) if odds > 0 else (-odds) / ((-odds) + 100)
american_to_prob(odds) ==
    IF odds > 0
      THEN TrueDiv(FromInt(100), FromInt(odds + 100))
      ELSE TrueDiv(FromInt(-odds), FromInt((-odds) + 100))

\* (-odds / 100) if odds < 0 else (odds / 100): the payout multiplier b of
\* kelly_fraction and of the ev expression.
payout(odds) ==
    IF odds < 0 THEN RDiv(FromInt(-odds), FromInt(100))
                ELSE RDiv(FromInt(odds), FromInt(100))

\* Mutant of kelly_fraction: the clamp max(0.0, .) left out.
kelly_fraction_unclamped(p, odds) ==
    LET b == payout(odds)
        q == RSub(One, p)
        edge == RSub(RMul(b, p), q)
        quot == TrueDiv(edge, b)
    IN  IF RLt(Zero, b)
          THEN IF quot.raised # "none" THEN quot
               ELSE Return(<<quot.value, edge>>)
          ELSE Return(<<Zero, edge>>)

\* Mutant of kelly_fraction: the favourite's payout taken as 100 / -odds.
kelly_fraction_fairpayout(p, odds) ==
    LET b == IF odds < 0 THEN RDiv(FromInt(100), FromInt(-odds))
                         ELSE RDiv(FromInt(odds), FromInt(100))
        q == RSub(One, p)
        edge == RSub(RMul(b, p), q)
        quot == TrueDiv(edge, b)
    IN  IF RLt(Zero, b)
          THEN IF quot.raised # "none" THEN quot
               ELSE Return(<<RMax(Zero, quot.value), edge>>)
          ELSE Return(<<Zero, edge>>)

\* def kelly_fraction(p, odds):
\*     b = (-odds / 100) if odds < 0 else (odds / 100)
\*     q = 1 - p
\*     edge = b * p - q
\*     f_star = max(0.0, edge / b) if b > 0 else 0.0
\*     return f_star, edge
\* The value returned is the pair <<f_star, edge>>.
kelly_fraction(p, odds) ==
    LET b == payout(odds)
        q == RSub(One, p)
        edge == RSub(RMul(b, p), q)
        quot == TrueDiv(edge, b)
    IN  IF RLt(Zero, b)
          THEN IF quot.raised # "none" THEN quot
               ELSE Return(<<RMax(Zero, quot.value), edge>>)
          ELSE Return(<<Zero, edge>>)

\* Mutant of expected_value: the stake lost counted as p instead of 1 - p.
expected_value_wrongloss(p, odds) == RSub(RMul(p, payout(odds)), p)

\* ev = (sample.p_blended * ((-odds / 100) if odds < 0 else (odds / 100)))
\*      - (1 - sample.p_blended)
expected_value(p, odds) == RSub(RMul(p, payout(odds)), RSub(One, p))

\* alpha = 0.7
alpha == Rat(7, 10)

\* Mutant of blend: the market weight taken as alpha too.
blend_sameweight(a, p_model, p_market) == RAdd(RMul(a, p_model), RMul(a, p_market))

\* alpha * df["p_calibrated"] + (1 - alpha) * df["p_market"], one row of it,
\* with the weight as a parameter.
blend(a, p_model, p_market) ==
    RAdd(RMul(a, p_model), RMul(RSub(One, a), p_market))

\* Mutant of predict: the tie at exactly 0.5 resolved to the positive class.
predict_tie_positive(p) == IF RLe(Half, p) THEN 1 ELSE 0

\* (df[col] > 0.5).astype(int), one row of it.
predict(p) == IF RLt(Half, p) THEN 1 ELSE 0

\* sklearn.metrics.accuracy_score(y_true, y_pred): the fraction of rows on
\* which the two agree.
accuracy_score(y_true, y_pred) ==
    Rat(Cardinality({i \in DOMAIN y_true : y_true[i] = y_pred[i]}), Len(y_true))

\* accuracy_score(y, (df[col] > 0.5).astype(int))
accuracy(y, col) == accuracy_score(y, [i \in DOMAIN col |-> predict(col[i])])

---------------------------------------------------------------------------
(* The calibrator: IsotonicRegression(out_of_bounds='clip').  fit() merges *)
(* the rows of equal x into one weighted point, runs pool-adjacent-        *)
(* violators over the points in increasing x, and keeps the fitted points; *)
(* transform() clips its input to the fitted x range and interpolates      *)
(* linearly between the fitted points.                                     *)

\* The elements of a finite set of rationals in increasing order.
RECURSIVE SortRat(_)
SortRat(S) ==
    IF S = {} THEN <<>>
    ELSE LET m == CHOOSE a \in S : \A b \in S : RLe(a, b)
         IN  <<m>> \o SortRat(S \ {m})

\* One block of pooled points: the sum of its labels, its weight (rows), and
\* the number of distinct x it covers.
BlockMean(b) == Rat(b.sum, b.w)

\* The points of fit(): one block per distinct x, in increasing x.
UniquePoints(X, y) ==
    LET xs == SortRat({X[i] : i \in DOMAIN X})
    IN  [k \in DOMAIN xs |->
            [sum |-> Cardinality({i \in DOMAIN X : X[i] = xs[k] /\ y[i] = 1}),
             w   |-> Cardinality({i \in DOMAIN X : X[i] = xs[k]}),
             n   |-> 1]]

Violations(bs) ==
    {k \in 1..(Len(bs) - 1) : RLt(BlockMean(bs[k + 1]), BlockMean(bs[k]))}

MergeAt(bs, k) ==
    SubSeq(bs, 1, k - 1)
    \o <<[sum |-> bs[k].sum + bs[k + 1].sum,
          w   |-> bs[k].w + bs[k + 1].w,
          n   |-> bs[k].n + bs[k + 1].n]>>
    \o SubSeq(bs, k + 2, Len(bs))

\* Mutant of PoolAdjacentViolators: no pooling, each distinct x keeps the mean
\* of its own labels.
NoPooling(bs) == bs

\* Pool adjacent violators: while some block's mean exceeds its successor's,
\* merge the first such pair.
RECURSIVE PoolAdjacentViolators(_)
PoolAdjacentViolators(bs) ==
    IF Violations(bs) = {} THEN bs
    ELSE PoolAdjacentViolators(
             MergeAt(bs, CHOOSE k \in Violations(bs) : \A j \in Violations(bs) : k <= j))

\* The fitted value of every distinct x, block by block.
RECURSIVE Expand(_)
Expand(bs) ==
    IF bs = <<>> THEN <<>>
    ELSE [i \in 1..bs[1].n |-> BlockMean(bs[1])] \o Expand(Tail(bs))

\* calibrator.fit(X, y): the fitted points.
IsotonicFit(X, y) ==
    [X_thresholds |-> SortRat({X[i] : i \in DOMAIN X}),
     y_thresholds |-> Expand(PoolAdjacentViolators(UniquePoints(X, y)))]

\* calibrator.transform(t) for one input: clip to [X_min_, X_max_], then
\* interpolate linearly between the fitted points (a single fitted point is
\* a constant function).
IsotonicTransform(f, t) ==
    LET xs == f.X_thresholds
        ys == f.y_thresholds
        n  == Len(xs)
        c  == RMin(RMax(t, xs[1]), xs[n])
    IN  IF n = 1 THEN ys[1]
        ELSE LET k == CHOOSE j \in 1..(n - 1) :
                          /\ RLe(xs[j], c) /\ RLe(c, xs[j + 1])
                          /\ \A i \in 1..(j - 1) : ~(RLe(xs[i], c) /\ RLe(c, xs[i + 1]))
             IN  RAdd(ys[k],
                      RDiv(RMul(RSub(ys[k + 1], ys[k]), RSub(c, xs[k])),
                           RSub(xs[k + 1], xs[k])))

\* calibrator.fit_transform(X, y) = fit(X, y).transform(X)
fit_transform(X, y) ==
    LET f == IsotonicFit(X, y)
    IN  [i \in DOMAIN X |-> IsotonicTransform(f, X[i])]

---------------------------------------------------------------------------
(* The pipeline script, src/mlb_betting_model_HrishikeshK.py, statement by *)
(* statement.  The feature columns only feed LogisticRegression, whose     *)
(* output p_base is any column of probabilities; brier_score_loss and      *)
(* log_loss bind their own names only and are left out.                    *)

\* f[name] = v: a column of the data frame, or a name of the script, assigned.
Assign(f, name, v) == [c \in (DOMAIN f) \cup {name} |-> IF c = name THEN v ELSE f[c]]

Index(frame) == DOMAIN frame["actual_outcome"]

NoCall == [fn |-> "none", args |-> <<>>, ret |-> <<>>]

\* np.random.choice([-120, -130, -110, 100, 110], n_games)
MoneylineChoices == {-120, -130, -110, 100, 110}

\* The data frame as section 1 of the script leaves it.
Init ==
    /\ pc = "fit_base"
    /\ \E m \in [1..NGames -> MoneylineChoices], o \in [1..NGames -> {0, 1}] :
           df = Assign(Assign(<<>>, "away_moneyline", m), "actual_outcome", o)
    /\ env = <<>>
    /\ call = NoCall

\* df["p_base"] = base_model.predict_proba(X)[:, 1]
FitBase ==
    /\ pc = "fit_base"
    /\ \E col \in [Index(df) -> Grid(PDen)] : df' = Assign(df, "p_base", col)
    /\ pc' = "eval_v1"
    /\ UNCHANGED <<env, call>>

\* acc_v1 = accuracy_score(y, (df["p_base"] > 0.5).astype(int))
EvalV1 ==
    /\ pc = "eval_v1"
    /\ env' = Assign(env, "acc_v1", accuracy(df["actual_outcome"], df["p_base"]))
    /\ pc' = "calibrate"
    /\ UNCHANGED <<df, call>>

\* calibrator.fit_transform(df["p_base"], y)
CalibratedColumn(frame) == fit_transform(frame["p_base"], frame["actual_outcome"])

\* df["p_calibrated"] = calibrator.fit_transform(df["p_base"], y)
Calibrate ==
    /\ pc = "calibrate"
    /\ df' = Assign(df, "p_calibrated", CalibratedColumn(df))
    /\ pc' = "eval_v2"
    /\ UNCHANGED <<env, call>>

\* acc_v2 = accuracy_score(y, (df["p_calibrated"] > 0.5).astype(int))
EvalV2 ==
    /\ pc = "eval_v2"
    /\ env' = Assign(env, "acc_v2", accuracy(df["actual_outcome"], df["p_calibrated"]))
    /\ pc' = "market"
    /\ UNCHANGED <<df, call>>

\* df["p_market"] = df["away_moneyline"].apply(american_to_prob)
\* An exception in the applied function ends the script.
MarketProb ==
    /\ pc = "market"
    /\ LET r == [i \in Index(df) |-> american_to_prob(df["away_moneyline"][i])]
       IN  IF \E i \in Index(df) : r[i].raised # "none"
             THEN pc' = "raised" /\ UNCHANGED df
             ELSE /\ df' = Assign(df, "p_market", [i \in Index(df) |-> r[i].value])
                  /\ pc' = "blend"
    /\ UNCHANGED <<env, call>>

\* Mutant of BlendedColumn: the uncalibrated column blended with the market.
BlendedColumnFromBase(frame) ==
    [i \in Index(frame) |-> blend(alpha, frame["p_base"][i], frame["p_market"][i])]

\* alpha * df["p_calibrated"] + (1 - alpha) * df["p_market"]
BlendedColumn(frame) ==
    [i \in Index(frame) |-> blend(alpha, frame["p_calibrated"][i], frame["p_market"][i])]

\* df["p_blended"] = alpha * df["p_calibrated"] + (1 - alpha) * df["p_market"]
Blend ==
    /\ pc = "blend"
    /\ df' = Assign(df, "p_blended", BlendedColumn(df))
    /\ pc' = "eval_v3"
    /\ UNCHANGED <<env, call>>

\* acc_v3 = accuracy_score(y, (df["p_blended"] > 0.5).astype(int))
EvalV3 ==
    /\ pc = "eval_v3"
    /\ env' = Assign(env, "acc_v3", accuracy(df["actual_outcome"], df["p_blended"]))
    /\ pc' = "sample"
    /\ UNCHANGED <<df, call>>

\* sample = df.sample(1, random_state=2).iloc[0]: one row, copied.
Sample ==
    /\ pc = "sample"
    /\ \E i \in Index(df) : env' = Assign(env, "sample", [c \in DOMAIN df |-> df[c][i]])
    /\ pc' = "kelly"
    /\ UNCHANGED <<df, call>>

\* kelly, edge = kelly_fraction(sample.p_blended, sample.away_moneyline)
Kelly ==
    /\ pc = "kelly"
    /\ LET r == kelly_fraction(env["sample"]["p_blended"], env["sample"]["away_moneyline"])
       IN  IF r.raised # "none"
             THEN pc' = "raised" /\ UNCHANGED env
             ELSE /\ env' = Assign(Assign(env, "kelly", r.value[1]), "edge", r.value[2])
                  /\ pc' = "ev"
    /\ UNCHANGED <<df, call>>

\* ev = (sample.p_blended * b) - (1 - sample.p_blended)
EV ==
    /\ pc = "ev"
    /\ env' = Assign(env, "ev",
                     expected_value(env["sample"]["p_blended"], env["sample"]["away_moneyline"]))
    /\ pc' = "done"
    /\ UNCHANGED <<df, call>>

Next ==
    \/ FitBase \/ EvalV1 \/ Calibrate \/ EvalV2 \/ MarketProb
    \/ Blend \/ EvalV3 \/ Sample \/ Kelly \/ EV

Spec == Init /\ [][Next]_vars

---------------------------------------------------------------------------
(* SpecCalls: the functions and expressions of the pipeline script applied *)
(* to inputs drawn from bounded sets: one application per behaviour, held  *)
(* in call.                                                                *)

\* Signed integer odds, zero (malformed) included.
OddsDomain == (-OddsSmall..OddsSmall) \cup {10 * k : k \in -OddsTens..OddsTens}

\* Probabilities handed to the staking functions.
StakeProbs == Grid(KDen) \cup {Rat(11, 20), Rat(3, 5)}

\* Mixing weights handed to the blend expression.
Weights == Grid(CDen) \cup {alpha}

InitCalls ==
    /\ pc = "calls"
    /\ df = <<>>
    /\ env = <<>>
    /\ call = NoCall

\* series.apply(american_to_prob) on two odds: the function applied to each.
CallOdds ==
    /\ pc = "calls"
    /\ \E o1 \in OddsDomain, o2 \in OddsDomain :
              call' = [fn |-> "american_to_prob", args |-> <<o1, o2>>,
                       ret |-> <<american_to_prob(o1), american_to_prob(o2)>>]
    /\ pc' = "returned"
    /\ UNCHANGED <<df, env>>

\* kelly_fraction(p, odds)
CallKelly ==
    /\ pc = "calls"
    /\ \E p \in StakeProbs, o \in OddsDomain :
              call' = [fn |-> "kelly_fraction", args |-> <<p, o>>, ret |-> kelly_fraction(p, o)]
    /\ pc' = "returned"
    /\ UNCHANGED <<df, env>>

\* The ev expression on (p, odds).
CallEV ==
    /\ pc = "calls"
    /\ \E p \in StakeProbs, o \in OddsDomain :
              call' = [fn |-> "ev", args |-> <<p, o>>, ret |-> Return(expected_value(p, o))]
    /\ pc' = "returned"
    /\ UNCHANGED <<df, env>>

\* The blend expression on (alpha, p_model, p_market).
CallBlend ==
    /\ pc = "calls"
    /\ \E a \in Weights, p_model \in Grid(CDen), p_market \in Grid(CDen) :
              call' = [fn |-> "blend", args |-> <<a, p_model, p_market>>,
                       ret |-> Return(blend(a, p_model, p_market))]
    /\ pc' = "returned"
    /\ UNCHANGED <<df, env>>

\* The inputs handed to calibrator.transform: every probability of the grid,
\* in increasing order.
Queries == SortRat(Grid(CDen))

\* calibrator.fit_transform(X, y), then calibrator.transform(T).
CallCalibrator ==
    /\ pc = "calls"
    /\ \E X \in [1..NCal -> Grid(CDen)], y \in [1..NCal -> {0, 1}] :
           LET f == IsotonicFit(X, y)
           IN  call' = [fn |-> "calibrator", args |-> <<X, y, Queries>>,
                        ret |-> [batch |-> fit_transform(X, y),
                                 out   |-> [k \in DOMAIN Queries |->
                                               IsotonicTransform(f, Queries[k])]]]
    /\ pc' = "returned"
    /\ UNCHANGED <<df, env>>

NextCalls == CallOdds \/ CallKelly \/ CallEV \/ CallBlend \/ CallCalibrator

SpecCalls == InitCalls /\ [][NextCalls]_vars

---------------------------------------------------------------------------
(* The results script, src/mlb_betting_model_v3_results.py.  The columns   *)
(* Game, Bet_Type, Probability_%, Odds and Risk_Level are only printed and *)
(* exported; they are left out.                                            *)

\* np.random.uniform(0.01, 0.05, 10).round(3): a whole number of thousandths.
EVChoices == {Rat(k, 1000) : k \in 10..50}

\* The literal 0.02 of the Recommendation column.
cutoff == Rat(2, 100)

\* Mutant of recommendation: the cutoff itself recommended.
recommendation_inclusive(x) == IF RLe(cutoff, x) THEN "Bet" ELSE "Pass"

\* np.where(df["EV_per_$"] > 0.02, "Bet", "Pass"), one row of it.
recommendation(x) == IF RLt(cutoff, x) THEN "Bet" ELSE "Pass"

\* round(x, 2) for x >= 0: the nearest hundredth, an exact tie to the even
\* one.  (No value the bounded tables produce is an exact tie.)
round2(x) ==
    LET n == Num(x) * 100
        d == Den(x)
        fl == n \div d
        r2 == 2 * (n - fl * d)
    IN  Rat(IF r2 < d THEN fl
            ELSE IF r2 > d THEN fl + 1
            ELSE IF fl % 2 = 0 THEN fl ELSE fl + 1, 100)

\* The sum of col over the rows S.
RECURSIVE SumOver(_, _)
SumOver(col, S) ==
    IF S = {} THEN Zero
    ELSE LET i == CHOOSE j \in S : TRUE
         IN  RAdd(col[i], SumOver(col, S \ {i}))

BetRows(frame) == {i \in DOMAIN frame["Recommendation"] : frame["Recommendation"][i] = "Bet"}

InitResults ==
    /\ pc = "recommend"
    /\ \E e \in [1..NBets -> EVChoices] : df = Assign(<<>>, "EV_per_$", e)
    /\ env = <<>>
    /\ call = NoCall

\* df["Recommendation"] = np.where(df["EV_per_$"] > 0.02, "Bet", "Pass")
Recommend ==
    /\ pc = "recommend"
    /\ df' = Assign(df, "Recommendation",
                    [i \in DOMAIN df["EV_per_$"] |-> recommendation(df["EV_per_$"][i])])
    /\ pc' = "results"
    /\ UNCHANGED <<env, call>>

\* df["Actual_Result"] = np.random.choice([1, 0], 10, p=[0.6, 0.4])
\* df["Came_True"] = df["Actual_Result"].map({1: "Yes", 0: "No"})
ActualResults ==
    /\ pc = "results"
    /\ \E r \in [DOMAIN df["EV_per_$"] -> {0, 1}] :
           df' = Assign(Assign(df, "Actual_Result", r), "Came_True",
                        [i \in DOMAIN r |-> IF r[i] = 1 THEN "Yes" ELSE "No"])
    /\ pc' = "tally"
    /\ UNCHANGED <<env, call>>

\* df[(df["Recommendation"] == "Bet") & (df["Actual_Result"] == 1)].shape[0]
won_bets_of(frame) ==
    Cardinality({i \in BetRows(frame) : frame["Actual_Result"][i] = 1})

\* total_bets = (df["Recommendation"] == "Bet").sum()
\* won_bets = df[(Recommendation == "Bet") & (Actual_Result == 1)].shape[0]
\* model_accuracy = round(won_bets / total_bets * 100, 2) if total_bets > 0 else 0
Tally ==
    /\ pc = "tally"
    /\ LET total == Cardinality(BetRows(df))
           won == won_bets_of(df)
           accuracy_pct == IF total > 0
                             THEN round2(RMul(Rat(won, total), FromInt(100)))
                             ELSE Zero
       IN  env' = Assign(Assign(Assign(env, "total_bets", total), "won_bets", won),
                         "model_accuracy", accuracy_pct)
    /\ pc' = "average"
    /\ UNCHANGED <<df, call>>

\* avg_ev = df.loc[df["Recommendation"] == "Bet", "EV_per_$"].mean()  (nan of no row)
\* roi = round(avg_ev * 100, 2)
Average ==
    /\ pc = "average"
    /\ LET rows == BetRows(df)
           avg == IF rows = {} THEN "nan"
                  ELSE RDiv(SumOver(df["EV_per_$"], rows), FromInt(Cardinality(rows)))
           r == IF rows = {} THEN "nan" ELSE round2(RMul(avg, FromInt(100)))
       IN  env' = Assign(Assign(env, "avg_ev", avg), "roi", r)
    /\ pc' = "done"
    /\ UNCHANGED <<df, call>>

NextResults == Recommend \/ ActualResults \/ Tally \/ Average

SpecResults == InitResults /\ [][NextResults]_vars

---------------------------------------------------------------------------
(* The claims. *)

\* The whole number nearest to x * scale, for x >= 0 (x rounded to the
\* decimal places scale stands for).
Nearest(x, scale) == (2 * Num(x) * scale + Den(x)) \div (2 * Den(x))

\* C1 (as claimed): with odds == 0 both american_to_prob and kelly_fraction
\* fail with InvalidOdds and return no value, whatever p is.
C1_InvalidOddsAtZero ==
    /\ call.fn = "american_to_prob" =>
           \A i \in 1..2 :
               call.args[i] = 0 =>
                   call.ret[i].raised = "InvalidOdds" /\ call.ret[i].value = NoValue
    /\ (call.fn = "kelly_fraction" /\ call.args[2] = 0) =>
           call.ret.raised = "InvalidOdds" /\ call.ret.value = NoValue

\* C2: for every odds o # 0, american_to_prob(o) returns a probability
\* strictly between 0 and 1; among negative odds the more negative one gets
\* the higher probability, and among positive odds the smaller one does.
C2_OddsToProbRangeAndOrder ==
    call.fn = "american_to_prob" =>
        LET o1 == call.args[1]
            o2 == call.args[2]
            r1 == call.ret[1]
            r2 == call.ret[2]
        IN  /\ \A i \in 1..2 :
                   call.args[i] # 0 =>
                       /\ call.ret[i].raised = "none"
                       /\ RLt(Zero, call.ret[i].value)
                       /\ RLt(call.ret[i].value, One)
            /\ (o1 < o2 /\ o2 < 0) => RLt(r2.value, r1.value)
            /\ (0 < o1 /\ o1 < o2) => RLt(r2.value, r1.value)

\* C2's case: two distinct favourites and their probabilities.
C2_Witness ==
    /\ call.fn = "american_to_prob"
    /\ call.args = <<-130, -110>>
    /\ call.ret[1].value = Rat(13, 23)
    /\ call.ret[2].value = Rat(11, 21)

\* C3: for p in [0,1] and odds # 0, kelly_fraction returns edge = b*p - (1-p)
\* with b = -odds/100 for odds < 0 and odds/100 otherwise, and a Kelly
\* fraction max(0, edge/b) when b > 0 and 0 otherwise: never negative, and
\* zero exactly when edge <= 0.
C3_KellyFormula ==
    (call.fn = "kelly_fraction" /\ call.args[2] # 0) =>
        LET p == call.args[1]
            o == call.args[2]
            b == IF o < 0 THEN Rat(-o, 100) ELSE Rat(o, 100)
            e == RSub(RMul(b, p), RSub(One, p))
        IN  /\ call.ret.raised = "none"
            /\ call.ret.value[2] = e
            /\ call.ret.value[1] = (IF RLt(Zero, b) THEN RMax(Zero, RDiv(e, b)) ELSE Zero)
            /\ RLe(Zero, call.ret.value[1])
            /\ (call.ret.value[1] = Zero) <=> RLe(e, Zero)

\* C3's case: a losing bet, whose negative edge is clamped to a zero stake.
C3_Witness ==
    /\ call.fn = "kelly_fraction"
    /\ call.args = <<Rat(2, 5), -110>>
    /\ RLt(call.ret.value[2], Zero)
    /\ call.ret.value[1] = Zero

\* C4 (as claimed): odds = -110, p = 0.55 give edge = 0.165 and a Kelly
\* fraction that is 0.15 to two decimal places.
C4_Original ==
    (call.fn = "kelly_fraction" /\ call.args = <<Rat(11, 20), -110>>) =>
        /\ call.ret.raised = "none"
        /\ call.ret.value[2] = Rat(165, 1000)
        /\ Nearest(call.ret.value[1], 100) = 15

\* C4 (amended): odds = -110, p = 0.55 use b = 1.10 and give
\* edge = 1.10*0.55 - 0.45 = 0.155 and a Kelly fraction 0.155/1.10 = 0.1409...,
\* which is 0.14 to two decimal places.
C4_Amended ==
    (call.fn = "kelly_fraction" /\ call.args = <<Rat(11, 20), -110>>) =>
        /\ payout(-110) = Rat(110, 100)
        /\ call.ret.raised = "none"
        /\ call.ret.value[2] = Rat(155, 1000)
        /\ call.ret.value[1] = RDiv(Rat(155, 1000), Rat(110, 100))
        /\ Nearest(call.ret.value[1], 100) = 14

\* C4's case: kelly_fraction applied to (0.55, -110) has returned.
C4_Witness ==
    /\ pc = "returned"
    /\ call.fn = "kelly_fraction"
    /\ call.args = <<Rat(11, 20), -110>>
    /\ call.ret.raised = "none"

\* C5 (as claimed): odds = +110, p = 0.60 give edge = 0.10, expected value
\* 0.10 and a Kelly fraction that is 0.0909 to four decimal places.
C5_Original ==
    /\ (call.fn = "kelly_fraction" /\ call.args = <<Rat(3, 5), 110>>) =>
           /\ call.ret.raised = "none"
           /\ call.ret.value[2] = Rat(10, 100)
           /\ Nearest(call.ret.value[1], 10000) = 909
    /\ (call.fn = "ev" /\ call.args = <<Rat(3, 5), 110>>) =>
           call.ret.value = Rat(10, 100)

\* C5 (amended): odds = +110, p = 0.60 use b = 1.10 and give
\* edge = 1.10*0.60 - 0.40 = 0.26, expected value 0.26 and a Kelly fraction
\* 0.26/1.10 = 0.23636..., which is 0.2364 to four decimal places.
C5_Amended ==
    /\ (call.fn = "kelly_fraction" /\ call.args = <<Rat(3, 5), 110>>) =>
           /\ payout(110) = Rat(110, 100)
           /\ call.ret.raised = "none"
           /\ call.ret.value[2] = Rat(26, 100)
           /\ call.ret.value[1] = RDiv(Rat(26, 100), Rat(110, 100))
           /\ Nearest(call.ret.value[1], 10000) = 2364
    /\ (call.fn = "ev" /\ call.args = <<Rat(3, 5), 110>>) =>
           /\ call.ret.raised = "none"
           /\ call.ret.value = Rat(26, 100)

\* C5's case: the ev expression applied to (0.60, +110) has returned.
C5_Witness ==
    /\ pc = "returned"
    /\ call.fn = "ev"
    /\ call.args = <<Rat(3, 5), 110>>
    /\ call.ret.raised = "none"

\* C6: for alpha, p_model, p_market in [0,1] the blend lies between
\* min(p_model, p_market) and max(p_model, p_market), hence in [0,1];
\* alpha = 1 gives p_model and alpha = 0 gives p_market.
C6_BlendBetween ==
    call.fn = "blend" =>
        LET a == call.args[1]
            p_model == call.args[2]
            p_market == call.args[3]
            v == call.ret.value
        IN  /\ call.ret.raised = "none"
            /\ RLe(RMin(p_model, p_market), v)
            /\ RLe(v, RMax(p_model, p_market))
            /\ RLe(Zero, v) /\ RLe(v, One)
            /\ (a = One) => (v = p_model)
            /\ (a = Zero) => (v = p_market)

\* C6's case: the code's weight 0.7 on two different probabilities, the
\* result strictly between them.
C6_Witness ==
    /\ call.fn = "blend"
    /\ call.args = <<Rat(7, 10), One, Half>>
    /\ call.ret.value = Rat(85, 100)

\* C7: in the accuracy of each stage (base, calibrated, blended) a row is
\* predicted positive exactly when its probability is strictly above 0.5; a
\* probability of exactly 0.5 is predicted negative and is correct only on a
\* label of 0.
C7_AccuracyThreshold ==
    \A st \in {<<"acc_v1", "p_base">>, <<"acc_v2", "p_calibrated">>, <<"acc_v3", "p_blended">>} :
        st[1] \in DOMAIN env =>
            LET col == df[st[2]]
                y == df["actual_outcome"]
                right == {i \in DOMAIN col :
                             \/ RLt(Half, col[i]) /\ y[i] = 1
                             \/ RLe(col[i], Half) /\ y[i] = 0}
            IN  env[st[1]] = Rat(Cardinality(right), Cardinality(DOMAIN col))

\* C7's case: a blended probability of exactly 0.5 on a label of 0, counted
\* correct, and another of exactly 0.5 on a label of 1 in the base column,
\* counted wrong.
C7_Witness ==
    /\ "acc_v3" \in DOMAIN env
    /\ \E i \in Index(df) :
           /\ df["p_blended"][i] = Half
           /\ df["actual_outcome"][i] = 0
           /\ env["acc_v3"] = One
    /\ \E i \in Index(df) :
           /\ df["p_base"][i] = Half
           /\ df["actual_outcome"][i] = 1
           /\ RLt(env["acc_v1"], One)

\* C8: the fitted calibrator is non-decreasing: p1 <= p2 gives
\* transform(p1) <= transform(p2); in the batch p_calibrated is non-decreasing
\* in p_base; every calibrated value lies in [0,1].
C8_CalibratorMonotone ==
    call.fn = "calibrator" =>
        LET X == call.args[1]
            T == call.args[3]
            batch == call.ret.batch
            out == call.ret.out
        IN  /\ \A j \in DOMAIN T, k \in DOMAIN T :
                   RLe(T[j], T[k]) => RLe(out[j], out[k])
            /\ \A i \in DOMAIN X, j \in DOMAIN X :
                   RLe(X[i], X[j]) => RLe(batch[i], batch[j])
            /\ \A i \in DOMAIN X : RLe(Zero, batch[i]) /\ RLe(batch[i], One)
            /\ \A k \in DOMAIN T : RLe(Zero, out[k]) /\ RLe(out[k], One)

\* C8's case: labels that decrease along p_base (1 at 0.25, 0 at 0.5) are
\* pooled, an input between two fitted points is interpolated, and inputs
\* outside the fitted range are clipped.
C8_Witness ==
    /\ call.fn = "calibrator"
    /\ call.args[1] = <<Rat(1, 4), Rat(1, 2), One>>
    /\ call.args[2] = <<1, 0, 1>>
    /\ call.ret.batch = <<Half, Half, One>>
    /\ call.ret.out[1] = Half
    /\ \E k \in DOMAIN call.args[3] :
           call.args[3][k] = Rat(3, 4) /\ call.ret.out[k] = Rat(3, 4)

\* C9: a row's recommendation is "Bet" exactly when its expected value is
\* strictly above 0.02 and "Pass" otherwise (0.02 itself is "Pass"); the
\* winning recommended bets never outnumber the recommended bets; and the
\* model accuracy is 0 when no bet is recommended.
C9_Recommendation ==
    /\ "Recommendation" \in DOMAIN df =>
           \A i \in DOMAIN df["EV_per_$"] :
               /\ df["Recommendation"][i] \in {"Bet", "Pass"}
               /\ (df["Recommendation"][i] = "Bet") <=> RLt(Rat(2, 100), df["EV_per_$"][i])
    /\ "model_accuracy" \in DOMAIN env =>
           /\ env["total_bets"] =
                  Cardinality({i \in DOMAIN df["EV_per_$"] : RLt(Rat(2, 100), df["EV_per_$"][i])})
           /\ env["won_bets"] <= env["total_bets"]
           /\ (env["total_bets"] = 0) => (env["model_accuracy"] = Zero)

\* C9's case: a row whose expected value is exactly 0.02 is "Pass", no row is
\* recommended although a row came true, and the accuracy is 0.
C9_Witness ==
    /\ "model_accuracy" \in DOMAIN env
    /\ \E i \in DOMAIN df["EV_per_$"] :
           /\ df["EV_per_$"][i] = Rat(20, 1000)
           /\ df["Recommendation"][i] = "Pass"
           /\ df["Actual_Result"][i] = 1
    /\ env["total_bets"] = 0
    /\ env["won_bets"] = 0
    /\ env["model_accuracy"] = Zero

\* The columns in the order the stages write them.
C10_Order == <<"p_base", "p_calibrated", "p_market", "p_blended">>

\* C10, the states: a column is present only after the columns before it,
\* and the sample and the staking values only after p_blended.
C10_Present ==
    /\ \A k \in 2..Len(C10_Order) :
           C10_Order[k] \in DOMAIN df => C10_Order[k - 1] \in DOMAIN df
    /\ \A n \in {"sample", "kelly", "edge", "ev"} :
           n \in DOMAIN env => "p_blended" \in DOMAIN df

\* C10, the frame of a step: no step removes or rewrites a column or a bound
\* name; a step adds at most one column, the next one of the order; and a
\* step that binds a name (a metric, the sample, the staking values) changes
\* no column.
C10_Frame ==
    /\ \A c \in DOMAIN df : c \in DOMAIN df' /\ df'[c] = df[c]
    /\ \A n \in DOMAIN env : n \in DOMAIN env' /\ env'[n] = env[n]
    /\ \/ DOMAIN df' = DOMAIN df
       \/ \E k \in 1..Len(C10_Order) :
              /\ (DOMAIN df') \ (DOMAIN df) = {C10_Order[k]}
              /\ \A j \in 1..(k - 1) : C10_Order[j] \in DOMAIN df
    /\ (env' # env) => (df' = df)

\* C10, what a step writes: p_calibrated is the calibrator's image of p_base,
\* p_blended is 0.7*p_calibrated + 0.3*p_market, the sample is a row of the
\* frame, and kelly, edge and ev are computed from the sample's p_blended and
\* odds.
C10_Written ==
    /\ ("p_calibrated" \in DOMAIN df' /\ "p_calibrated" \notin DOMAIN df) =>
           df'["p_calibrated"] = fit_transform(df["p_base"], df["actual_outcome"])
    /\ ("p_blended" \in DOMAIN df' /\ "p_blended" \notin DOMAIN df) =>
           \A i \in Index(df) :
               df'["p_blended"][i] =
                   RAdd(RMul(Rat(7, 10), df["p_calibrated"][i]),
                        RMul(Rat(3, 10), df["p_market"][i]))
    /\ ("sample" \in DOMAIN env' /\ "sample" \notin DOMAIN env) =>
           \E i \in Index(df) : \A c \in DOMAIN df : env'["sample"][c] = df[c][i]
    /\ (env' # env /\ "sample" \in DOMAIN env) =>
           LET p == env["sample"]["p_blended"]
               o == env["sample"]["away_moneyline"]
               b == IF o < 0 THEN Rat(-o, 100) ELSE Rat(o, 100)
               e == RSub(RMul(b, p), RSub(One, p))
           IN  /\ "edge" \notin DOMAIN env =>
                      /\ DOMAIN env' = (DOMAIN env) \cup {"kelly", "edge"}
                      /\ env'["edge"] = e
                      /\ env'["kelly"] = RMax(Zero, RDiv(e, b))
               /\ "edge" \in DOMAIN env =>
                      /\ DOMAIN env' = (DOMAIN env) \cup {"ev"}
                      /\ env'["ev"] = e

\* C10: the stages run in the order base -> calibrated -> blended -> staking;
\* each appends only its own column and leaves every earlier column, the
\* odds and the labels unchanged; p_calibrated comes from p_base, p_blended
\* from p_calibrated and p_market, the staking values from p_blended; and
\* computing a stage's metrics changes no column.
C10_PipelineOrder == []C10_Present /\ [][C10_Frame /\ C10_Written]_vars

\* C10's case: the script has run to its end: every column is written, every
\* metric and staking value bound, and calibration changed the raw column.
C10_Witness ==
    /\ pc = "done"
    /\ DOMAIN df = {"away_moneyline", "actual_outcome",
                    "p_base", "p_calibrated", "p_market", "p_blended"}
    /\ {"acc_v1", "acc_v2", "acc_v3", "sample", "kelly", "edge", "ev"} \subseteq DOMAIN env
    /\ df["p_calibrated"] # df["p_base"]
    /\ RLt(Zero, env["kelly"])

=============================================================================
